---- MODULE Spec2Model ----
(***************************************************************************)
(* Model of the lunch-voting server (src/src/main.rs).                     *)
(*                                                                         *)
(* main opens an in-memory SQLite pool, runs one CREATE TABLE statement,   *)
(* builds a Router with the single route POST /vote, binds a listener and  *)
(* serves.  The handler vote calls save_vote, which runs                   *)
(* "SELECT * FROM votes", prints every row and returns Ok(()); vote        *)
(* debug-prints that result and returns (), which the framework answers    *)
(* with 200 and an empty body.                                             *)
(*                                                                         *)
(* The storage engine is an external collaborator: the reply of every      *)
(* statement sent to it (Ok or Err) is an input of the model.  The text of *)
(* the CREATE TABLE statement (lines 31-35) has no comma after the first   *)
(* column and a trailing comma, so an engine that parses it strictly       *)
(* answers Err; only the Err branch of CreateTable is then taken.          *)
(*                                                                         *)
(* Strings are sequences of one-character strings.                         *)
(***************************************************************************)
EXTENDS Integers, Sequences, FiniteSets, TLC

VARIABLES
    pc,          \* position of main: connect, create_table, bind, serve, panicked
    db,          \* AppState.db: "none" before connect, "open" after
    tableExists, \* whether the votes table exists in the store
    votes,       \* rows of the votes table
    nextId,      \* number of requests the listener has accepted so far
    inflight,    \* requests being handled by vote, suspended at line 103; call
                 \* is the state of the storage call awaited there
    responses,   \* answered requests, in the order they were answered; body is
                 \* the LunchVoting.votes of the answer, a set of Restaurant
    stdout       \* lines printed by save_vote's loop

vars == <<pc, db, tableExists, votes, nextId, inflight, responses, stdout>>

\* Total number of requests a behaviour sends to the server.
MaxRequests == 3

----------------------------------------------------------------------------
\* Inputs

\* VoteRequest.voter_name values (line 73): two names and a blank one.
VoterNames == { <<"a">>, <<"b">>, <<" ">> }

\* VoteRequest.restaurant_name values (line 74): two names and the empty one.
RestaurantNames == { <<"P">>, <<"T">>, <<>> }

\* The decoded JSON bodies of vote requests (lines 71-75) that clients send:
\* a votes for either restaurant, b for one, and the two bodies with a field
\* that is blank.
VoteRequest ==
    { v \in [voter_name : VoterNames, restaurant_name : RestaurantNames] :
        \/ v.voter_name = <<"a">>
        \/ v.restaurant_name = <<"P">> } \
    { [voter_name |-> <<" ">>, restaurant_name |-> <<>>] }

NoVote == [voter_name |-> <<>>, restaurant_name |-> <<>>]

\* Requests a client can send: a vote, a read of the tally or of the winner
\* (no such route is registered), and a GET of the vote path.
VoteHttp == { [method |-> "POST", path |-> "/vote", body |-> v] : v \in VoteRequest }

TallyHttp == [method |-> "GET", path |-> "/tally", body |-> NoVote]

OtherHttp == [method |-> "GET", path |-> "/vote", body |-> NoVote]

WinnerHttp == [method |-> "GET", path |-> "/winner", body |-> NoVote]

HttpRequests == VoteHttp \cup {TallyHttp, WinnerHttp, OtherHttp}

\* The Router of line 46: the only route is POST /vote -> vote.  A request for
\* another path is answered 404, another method on /vote 405.
Route(req) ==
    IF req.path = "/vote"
    THEN IF req.method = "POST" THEN "vote" ELSE "405"
    ELSE "404"

\* A save_vote that inserts the vote as a new row, under the schema's only
\* key, id.
SaveVoteInsert(rows, vote) ==
    rows \cup { [id |-> Cardinality(rows) + 1,
                 voter_name |-> vote.voter_name,
                 restaurant_name |-> vote.restaurant_name] }

\* The rows of the votes table after save_vote has run for `vote`, the table
\* holding `rows` before: save_vote only runs a SELECT (lines 101-103).
SaveVoteRows(rows, vote) == rows

\* A vote handler that takes the process down when save_vote returned Err.
AfterVoteAbort(res) == IF res = "Err" THEN "panicked" ELSE "serve"

\* The position of main once vote has handled a request whose save_vote
\* returned `res`: vote returns () in both cases (lines 85-87) and the server
\* goes on serving.
AfterVote(res) == "serve"

\* The status of the answer to a vote request whose save_vote returned `res`:
\* vote returns () whatever res is (lines 85-87), answered as 200.
VoteStatus(res) == 200

----------------------------------------------------------------------------
\* State after process start, before main's first await.
Init ==
    /\ pc = "connect"
    /\ db = "none"
    /\ tableExists = FALSE
    /\ votes = {}
    /\ nextId = 0
    /\ inflight = << >>
    /\ responses = << >>
    /\ stdout = << >>

\* line 30: SqlitePool::connect(...).await.unwrap()
Connect ==
    /\ pc = "connect"
    /\ \E ok \in BOOLEAN :
         IF ok THEN pc' = "create_table" /\ db' = "open"
               ELSE pc' = "panicked" /\ db' = db
    /\ UNCHANGED <<tableExists, votes, nextId, inflight, responses, stdout>>

\* A startup that drops the result of the CREATE TABLE statement.
CreateTableUnchecked ==
    /\ pc = "create_table"
    /\ \E ok \in BOOLEAN :
         /\ pc' = "bind"
         /\ tableExists' = (ok \/ tableExists)
    /\ UNCHANGED <<db, votes, nextId, inflight, responses, stdout>>

\* lines 31-38: the CREATE TABLE statement, .expect(...) on its result
CreateTable ==
    /\ pc = "create_table"
    /\ \E ok \in BOOLEAN :
         IF ok THEN pc' = "bind" /\ tableExists' = TRUE
               ELSE pc' = "panicked" /\ tableExists' = tableExists
    /\ UNCHANGED <<db, votes, nextId, inflight, responses, stdout>>

\* lines 41-51: state, router, TcpListener::bind(...).await.unwrap(), serve
Bind ==
    /\ pc = "bind"
    /\ \E ok \in BOOLEAN : pc' = IF ok THEN "serve" ELSE "panicked"
    /\ UNCHANGED <<db, tableExists, votes, nextId, inflight, responses, stdout>>

\* A request arrives.  The router answers it itself (404, 405) or starts the
\* vote handler, which runs up to the await of line 103.
Receive ==
    /\ pc = "serve"
    /\ nextId < MaxRequests
    /\ \E req \in HttpRequests :
         LET id == nextId + 1
             h  == [id |-> id, req |-> req, begun |-> Len(responses),
                    call |-> "pending"]
         IN /\ nextId' = id
            /\ IF Route(req) = "vote"
               THEN /\ inflight' = Append(inflight, h)
                    /\ responses' = responses
               ELSE /\ inflight' = inflight
                    /\ responses' = Append(responses,
                          [id |-> id, req |-> req, begun |-> Len(responses),
                           res |-> "none",
                           status |-> IF Route(req) = "405" THEN 405 ELSE 404,
                           body |-> {}])
    /\ UNCHANGED <<pc, db, tableExists, votes, stdout>>

RECURSIVE RowsToSeq(_)
\* The rows in the order fetch_all returns them (by id).
RowsToSeq(rows) ==
    IF rows = {} THEN << >>
    ELSE LET r == CHOOSE x \in rows : \A y \in rows : x.id <= y.id
         IN <<r>> \o RowsToSeq(rows \ {r})

\* Remove the i-th element of a sequence.
RemoveAt(s, i) == SubSeq(s, 1, i - 1) \o SubSeq(s, i + 1, Len(s))

\* The storage call of the i-th request in flight never completes.  The await
\* of line 103 has no timeout around it, so the handler stays suspended.
Stall(i) ==
    /\ pc = "serve"
    /\ i \in 1..Len(inflight)
    /\ inflight[i].call = "pending"
    /\ inflight' = [inflight EXCEPT ![i].call = "hung"]
    /\ UNCHANGED <<pc, db, tableExists, votes, nextId, responses, stdout>>

\* The rest of vote for the i-th request in flight: fetch_all completes with
\* Ok(rows) or Err (line 103); on Ok the loop prints every row and save_vote
\* returns Ok(()) (lines 105-109), on Err it returns the error; vote
\* debug-prints the result and returns () (lines 86-87).
Vote(i) ==
    /\ pc = "serve"
    /\ i \in 1..Len(inflight)
    /\ inflight[i].call = "pending"
    /\ LET h == inflight[i] IN
       \E ok \in BOOLEAN :
         /\ ok => tableExists
         /\ pc' = AfterVote(IF ok THEN "Ok" ELSE "Err")
         /\ stdout' = IF ok THEN stdout \o RowsToSeq(votes) ELSE stdout
         /\ votes' = IF ok THEN SaveVoteRows(votes, h.req.body) ELSE votes
         /\ responses' = Append(responses,
               [id |-> h.id, req |-> h.req, begun |-> h.begun,
                res |-> IF ok THEN "Ok" ELSE "Err",
                status |-> VoteStatus(IF ok THEN "Ok" ELSE "Err"),
                body |-> {}])
    /\ inflight' = RemoveAt(inflight, i)
    /\ UNCHANGED <<db, tableExists, nextId>>

Next ==
    \/ Connect
    \/ CreateTable
    \/ Bind
    \/ Receive
    \/ \E i \in 1..MaxRequests : Stall(i)
    \/ \E i \in 1..MaxRequests : Vote(i)

Spec == Init /\ [][Next]_vars

\* The runtime resumes a handler whose storage call has completed.
FairSpec == Spec /\ \A i \in 1..MaxRequests : WF_vars(Vote(i))

----------------------------------------------------------------------------
\* Vocabulary of the properties

Whitespace == { " " }

RECURSIVE TrimStart(_)
TrimStart(s) ==
    IF s # << >> /\ Head(s) \in Whitespace THEN TrimStart(Tail(s)) ELSE s

RECURSIVE TrimEnd(_)
TrimEnd(s) ==
    IF s # << >> /\ s[Len(s)] \in Whitespace
    THEN TrimEnd(SubSeq(s, 1, Len(s) - 1)) ELSE s

Trim(s) == TrimEnd(TrimStart(s))

\* Indices of the answered requests.
Answered == 1..Len(responses)

IsVote(r) == Route(r.req) = "vote"

IsTally(r) == r.req = TallyHttp

Voter(r) == r.req.body.voter_name

Restaurant(r) == r.req.body.restaurant_name

\* A vote request with both names non-empty after trimming.
ValidVote(r) ==
    IsVote(r) /\ Trim(Voter(r)) # << >> /\ Trim(Restaurant(r)) # << >>

\* A valid vote request whose storage call succeeded.
Stored(r) == ValidVote(r) /\ r.res = "Ok"

\* The answer classes of the caller-facing taxonomy.
Acknowledged(r) == r.status = 200

InvalidInput(r) == r.status \in 400..499

StorageFailure(r) == r.status \in 500..599

\* Request i was answered before request j arrived.
Before(i, j) == i <= responses[j].begun

Concurrent(i, j) == i # j /\ ~Before(i, j) /\ ~Before(j, i)

\* The vote requests for voter v, answered or in flight, are exactly those
\* answered at the indices in I.
OnlyVotesFor(v, I) ==
    /\ \A k \in Answered \ I : IsVote(responses[k]) => Voter(responses[k]) # v
    /\ \A k \in 1..Len(inflight) : inflight[k].req.body.voter_name # v

RowsOf(v) == { row \in votes : row.voter_name = v }

\* The voters the store holds a row for under restaurant r.
StoredVotersOf(r) == { row.voter_name : row \in { x \in votes : x.restaurant_name = r } }

\* The voters a tally answer lists under restaurant r.
ListedVotersOf(t, r) == UNION { e.voters : e \in { x \in t.body : x.name = r } }

----------------------------------------------------------------------------
LastWriteWins ==
    \A i, j \in Answered :
        LET a == responses[i]
            b == responses[j]
        IN ( /\ Stored(a) /\ Stored(b)
             /\ Before(i, j)
             /\ Voter(a) = Voter(b)
             /\ Restaurant(a) # Restaurant(b)
             /\ OnlyVotesFor(Voter(a), {i, j}) )
           => /\ Cardinality(RowsOf(Voter(a))) = 1
              /\ \A row \in RowsOf(Voter(a)) :
                     row.restaurant_name = Restaurant(b)
              /\ \A k \in Answered :
                     (IsTally(responses[k]) /\ Before(j, k))
                     => /\ Acknowledged(responses[k])
                        /\ \A e \in responses[k].body :
                               Voter(a) \in e.voters <=> e.name = Restaurant(b)

\* C3: a tally request that arrives after a voter's only vote request, valid
\* and stored, was answered lists the voter under the restaurant voted for.
VoteVisibleInNextTally ==
    \A i, k \in Answered :
        LET a == responses[i]
            t == responses[k]
        IN ( /\ Stored(a)
             /\ OnlyVotesFor(Voter(a), {i})
             /\ IsTally(t)
             /\ Before(i, k) )
           => /\ Acknowledged(t)
              /\ Voter(a) \in ListedVotersOf(t, Restaurant(a))

ConcurrentVotersAllCounted ==
    \A i, j \in Answered :
        LET a == responses[i]
            b == responses[j]
        IN ( /\ Stored(a) /\ Stored(b)
             /\ Concurrent(i, j)
             /\ Voter(a) # Voter(b)
             /\ Restaurant(a) = Restaurant(b)
             /\ inflight = << >>
             /\ \A k \in Answered \ {i, j} : ~IsVote(responses[k]) )
           => /\ StoredVotersOf(Restaurant(a)) = {Voter(a), Voter(b)}
              /\ \A k \in Answered :
                     (IsTally(responses[k]) /\ Before(i, k) /\ Before(j, k))
                     => /\ Acknowledged(responses[k])
                        /\ ListedVotersOf(responses[k], Restaurant(a))
                               = {Voter(a), Voter(b)}

\* C6: once two concurrent, valid, stored vote requests of one voter for
\* different restaurants are answered, the voter's only ones, the store holds
\* a single row for the voter, under one of the two restaurants; and every row
\* a fetch returned carries the voter and restaurant of one vote request.
ConcurrentSameVoterOneRecord ==
    /\ \A i, j \in Answered :
        LET a == responses[i]
            b == responses[j]
        IN ( /\ Stored(a) /\ Stored(b)
             /\ Concurrent(i, j)
             /\ Voter(a) = Voter(b)
             /\ Restaurant(a) # Restaurant(b)
             /\ OnlyVotesFor(Voter(a), {i, j}) )
           => /\ Cardinality(RowsOf(Voter(a))) = 1
              /\ \A row \in RowsOf(Voter(a)) :
                     row.restaurant_name \in {Restaurant(a), Restaurant(b)}
    /\ \A n \in 1..Len(stdout) :
           \E v \in VoteRequest :
               /\ v.voter_name = stdout[n].voter_name
               /\ v.restaurant_name = stdout[n].restaurant_name

\* A vote request with a name that is empty after trimming.
BlankVote(r) ==
    IsVote(r) /\ (Trim(Voter(r)) = << >> \/ Trim(Restaurant(r)) = << >>)

\* C7: a step that answers a vote request whose voter or restaurant name is
\* empty after trimming answers it InvalidInput and leaves the votes table as
\* it was.
BlankVoteRejected ==
    [][ (/\ Len(responses') = Len(responses) + 1
         /\ BlankVote(responses'[Len(responses')]))
        => /\ InvalidInput(responses'[Len(responses')])
           /\ votes' = votes ]_vars

\* C8: a vote request whose storage call failed is answered StorageFailure,
\* never with the acknowledgment of a successful vote.
StorageErrorSurfaced ==
    \A i \in Answered :
        (IsVote(responses[i]) /\ responses[i].res = "Err")
        => StorageFailure(responses[i]) /\ ~Acknowledged(responses[i])

\* C9: a tally request made while the votes table holds no row is answered
\* successfully, with a tally of zero entries.  (Rows are never deleted, so a
\* table empty now was empty when the request was made.)
EmptyStoreTallyIsEmpty ==
    \A k \in Answered :
        (IsTally(responses[k]) /\ votes = {})
        => Acknowledged(responses[k]) /\ responses[k].body = {}

\* The voter names of the vote requests that had arrived when request k did.
SubmittedBefore(k) ==
    { Voter(responses[i]) :
        i \in { x \in Answered : IsVote(responses[x]) /\ responses[x].id < responses[k].id } }
    \cup { inflight[n].req.body.voter_name :
            n \in { x \in 1..Len(inflight) : inflight[x].id < responses[k].id } }

Answers == Len(responses') = Len(responses) + 1

Last == responses'[Len(responses')]

\* C11: a step that answers a tally request answers it with a tally that
\* lists voter v under restaurant r exactly when the votes table holds a row
\* (v, r) at that moment, so that the answer is a function of the rows alone.
TallyIsGroupingOfStore ==
    [][ (Answers /\ IsTally(Last))
        => /\ Acknowledged(Last)
           /\ \A v \in VoterNames, r \in RestaurantNames :
                  v \in ListedVotersOf(Last, r)
                  <=> \E row \in votes :
                          row.voter_name = v /\ row.restaurant_name = r ]_vars

\* C12: once the server serves, it serves after every step, whatever request
\* is handled and however its storage call ends; the process terminates only
\* from a startup step; and while the server serves, a further request can be
\* accepted and every request whose storage call can complete can be answered.
ServerStaysUp ==
    [][ /\ pc = "serve" => pc' = "serve"
        /\ (pc # "panicked" /\ pc' = "panicked")
               => pc \in {"connect", "create_table", "bind"}
        /\ pc = "serve"
               => /\ nextId < MaxRequests => ENABLED Receive
                  /\ \A i \in 1..Len(inflight) :
                         inflight[i].call = "pending" => ENABLED Vote(i) ]_vars

\* The server serves after a vote request whose storage call failed, a vote
\* request with a blank name and an unrouted request were all answered.
ServesAfterFailures ==
    /\ pc = "serve"
    /\ \E i \in Answered : IsVote(responses[i]) /\ responses[i].res = "Err"
    /\ \E i \in Answered : BlankVote(responses[i])
    /\ \E i \in Answered : ~IsVote(responses[i])

InFlightId(id) == \E k \in 1..Len(inflight) : inflight[k].id = id

AnsweredId(id) == \E k \in Answered : responses[k].id = id

\* C13: every request in flight is eventually answered, also one whose
\* storage call never completes.
EveryRequestAnswered ==
    \A id \in 1..MaxRequests : InFlightId(id) ~> AnsweredId(id)

\* The restaurants with the most rows in the votes table.
MostVoted ==
    LET names == { row.restaurant_name : row \in votes }
    IN { r \in names :
           \A q \in names :
               Cardinality(StoredVotersOf(q)) <= Cardinality(StoredVotersOf(r)) }

IsWinner(r) == r.req = WinnerHttp

\* C14: a step that answers a winner request answers it successfully, naming
\* the restaurants with the most voters in the votes table, all of them when
\* several tie.
WinnerIsMostVoted ==
    [][ (Answers /\ IsWinner(Last))
        => /\ Acknowledged(Last)
           /\ { e.name : e \in Last.body } = MostVoted ]_vars

ServesOnlyWithTable ==
    [][ /\ (pc' = "serve" \/ nextId' > 0) => (db' = "open" /\ tableExists')
        /\ pc' = "panicked" => nextId' = 0
        /\ pc = "panicked" => pc' = "panicked"
        /\ (pc = "connect" /\ db' # "open") => pc' = "panicked"
        /\ (pc = "create_table" /\ ~tableExists') => pc' = "panicked" ]_vars

\* A request is in flight on a server whose votes table was created.
RequestHandledWithTable ==
    pc = "serve" /\ tableExists /\ db = "open" /\ inflight # << >>

====
